---------------------------- MODULE Spec2Model ----------------------------
(***************************************************************************)
(* Model of mcp-validator-server: the four validation checks               *)
(* (validators/email.py, phone.py, url.py, custom_regex.py), the two REST   *)
(* flavours that wrap them (api.py, rest_api.py), the remote client helper  *)
(* and its module-level singleton (clients/django_client.py), and the /sse  *)
(* event stream (http_server.py).                                           *)
(*                                                                          *)
(* A Python str is a sequence of characters; a character is a one-letter    *)
(* TLA+ string, or a named token for a character that is not a printable    *)
(* ASCII letter: "LF" is the line feed, "U+0663" is ARABIC-INDIC DIGIT      *)
(* THREE (a decimal digit that is not ASCII).                               *)
(***************************************************************************)
EXTENDS Integers, Sequences, FiniteSets

VARIABLES pc, call, outcome, response, returned

vars == <<pc, call, outcome, response, returned>>

(***************************************************************************)
(* Bounds of the model.                                                    *)
(***************************************************************************)
MaxEmailLen == 7
MaxPhoneHead == 2
MaxPhoneRun == 15
MaxPhoneTail == 1
MaxUrlRest == 3
MaxTextLen == 2
MaxPatLen == 3
MaxFlagLen == 2
MaxEvents == 4
MaxLag == 1
MaxCalls == 3

(***************************************************************************)
(* Strings.                                                                *)
(***************************************************************************)
Rep(c, k) == [j \in 1..k |-> c]

LowerLetters ==
    {"a","b","c","d","e","f","g","h","i","j","k","l","m",
     "n","o","p","q","r","s","t","u","v","w","x","y","z"}

UpperLetters ==
    {"A","B","C","D","E","F","G","H","I","J","K","L","M",
     "N","O","P","Q","R","S","T","U","V","W","X","Y","Z"}

AsciiLetters == LowerLetters \cup UpperLetters

AsciiDigits == {"0","1","2","3","4","5","6","7","8","9"}

\* The decimal digits of Unicode (category Nd): the ASCII ones and, standing
\* for all the others, ARABIC-INDIC DIGIT THREE.
UnicodeDigits == AsciiDigits \cup {"U+0663"}

UpperSeq ==
    <<"A","B","C","D","E","F","G","H","I","J","K","L","M",
      "N","O","P","Q","R","S","T","U","V","W","X","Y","Z">>

LowerSeq ==
    <<"a","b","c","d","e","f","g","h","i","j","k","l","m",
      "n","o","p","q","r","s","t","u","v","w","x","y","z">>

\* str.lower() on one character of the model's alphabet.
LowerChar(c) ==
    IF c \in UpperLetters
    THEN LowerSeq[CHOOSE k \in 1..26 : UpperSeq[k] = c]
    ELSE c

\* str.lower()
Lower(s) == [k \in 1..Len(s) |-> LowerChar(s[k])]

\* s[lo:hi] of Python (0-based, hi excluded), for 0 <= lo and hi <= len(s).
Slice(s, lo, hi) == SubSeq(s, lo + 1, hi)

\* s.find(c, start): the 0-based index of the first c at or after start, -1 if none.
Find(s, c, start) ==
    IF \E k \in (start + 1)..Len(s) : s[k] = c
    THEN (CHOOSE k \in (start + 1)..Len(s) :
              s[k] = c /\ \A j \in (start + 1)..(k - 1) : s[j] # c) - 1
    ELSE 0 - 1

\* s.rfind(c): the 0-based index of the last c, -1 if none.
RFind(s, c) ==
    IF \E k \in 1..Len(s) : s[k] = c
    THEN (CHOOSE k \in 1..Len(s) : s[k] = c /\ \A j \in (k + 1)..Len(s) : s[j] # c) - 1
    ELSE 0 - 1

\* c in s
Contains(s, c) == \E k \in 1..Len(s) : s[k] = c

\* s.lstrip(chars)
LStrip(s, chars) ==
    IF \A k \in 1..Len(s) : s[k] \in chars THEN <<>>
    ELSE SubSeq(s, CHOOSE k \in 1..Len(s) :
                       s[k] \notin chars /\ \A j \in 1..(k - 1) : s[j] \in chars, Len(s))

\* s with every character of chars removed (s.replace(c, "") for each c).
Without(s, chars) == SelectSeq(s, LAMBDA c : c \notin chars)

\* bool(s) of a str: the empty string is false.
Truthy(s) == s # <<>>

(***************************************************************************)
(* The regular-expression engine of Python's re, for the constructs the    *)
(* fixed patterns and the modelled user patterns use.  A compiled pattern  *)
(* is a sequence of items:                                                 *)
(*   [op |-> "LITERAL", ch], [op |-> "ANY"], [op |-> "IN", set],           *)
(*   [op |-> "AT_BEGINNING"], [op |-> "AT_END"],                           *)
(*   [op |-> "MAX_REPEAT", min, bounded, max, item]  (greedy repeat of a   *)
(*   one-character item).                                                  *)
(* Positions are 0-based, as in Python.  The flags are a set of names.     *)
(***************************************************************************)
Literal(c) == [op |-> "LITERAL", ch |-> c]
AnyChar == [op |-> "ANY"]
In(S) == [op |-> "IN", set |-> S]
AtBeginning == [op |-> "AT_BEGINNING"]
AtEnd == [op |-> "AT_END"]
Repeat(lo, item) == [op |-> "MAX_REPEAT", min |-> lo, bounded |-> FALSE, max |-> lo, item |-> item]
RepeatUpTo(lo, hi, item) == [op |-> "MAX_REPEAT", min |-> lo, bounded |-> TRUE, max |-> hi, item |-> item]

\* The "no match" answer of the matcher (None in Python).
NoMatch == 0 - 1

\* Whether the one-character item matches character c.
CharMatches(item, c, fl) ==
    CASE item.op = "LITERAL" ->
            IF "IGNORECASE" \in fl THEN LowerChar(c) = LowerChar(item.ch) ELSE c = item.ch
      [] item.op = "ANY" -> (c # "LF") \/ ("DOTALL" \in fl)
      [] item.op = "IN" ->
            IF "IGNORECASE" \in fl
            THEN \E d \in item.set : LowerChar(c) = LowerChar(d)
            ELSE c \in item.set
      [] OTHER -> FALSE

\* "^": the start of the string, or with MULTILINE just after a line feed.
AtBeginningHolds(text, pos, fl) ==
    \/ pos = 0
    \/ "MULTILINE" \in fl /\ text[pos] = "LF"

\* "$": the end of the string or just before a line feed that ends it; with
\* MULTILINE, before any line feed.
AtEndHolds(text, pos, fl) ==
    \/ pos = Len(text)
    \/ pos = Len(text) - 1 /\ text[pos + 1] = "LF"
    \/ "MULTILINE" \in fl /\ pos < Len(text) /\ text[pos + 1] = "LF"

\* The number of consecutive characters from pos that item matches, at most
\* cap of them.
RECURSIVE Run(_, _, _, _, _)
Run(item, text, pos, fl, cap) ==
    IF cap = 0 \/ pos >= Len(text) \/ ~CharMatches(item, text[pos + 1], fl)
    THEN 0
    ELSE 1 + Run(item, text, pos + 1, fl, cap - 1)

\* The backtracking matcher: the end position of the first way, in the
\* engine's order of preference (greedy repeats first give as much as they
\* can), to match items[k..] at pos; NoMatch when there is none.
RECURSIVE MatchFrom(_, _, _, _, _)
RECURSIVE TryCounts(_, _, _, _, _, _)
MatchFrom(items, k, text, pos, fl) ==
    IF k > Len(items) THEN pos
    ELSE LET it == items[k] IN
      CASE it.op = "AT_BEGINNING" ->
              IF AtBeginningHolds(text, pos, fl)
              THEN MatchFrom(items, k + 1, text, pos, fl) ELSE NoMatch
        [] it.op = "AT_END" ->
              IF AtEndHolds(text, pos, fl)
              THEN MatchFrom(items, k + 1, text, pos, fl) ELSE NoMatch
        [] it.op = "MAX_REPEAT" ->
              LET cap == IF it.bounded THEN it.max ELSE Len(text)
                  n == Run(it.item, text, pos, fl, cap)
              IN IF n < it.min THEN NoMatch
                 ELSE TryCounts(items, k, text, pos, fl, n)
        [] OTHER ->
              IF pos < Len(text) /\ CharMatches(it, text[pos + 1], fl)
              THEN MatchFrom(items, k + 1, text, pos + 1, fl) ELSE NoMatch

TryCounts(items, k, text, pos, fl, n) ==
    LET r == MatchFrom(items, k + 1, text, pos + n, fl) IN
    IF r # NoMatch THEN r
    ELSE IF n = items[k].min THEN NoMatch
    ELSE TryCounts(items, k, text, pos, fl, n - 1)

\* Pattern.match(text): a match that starts at position 0.
PatternMatch(items, text, fl) == MatchFrom(items, 1, text, 0, fl)

(***************************************************************************)
(* validators/email.py                                                     *)
(***************************************************************************)
EmailLocalChars == AsciiLetters \cup AsciiDigits \cup {".", "_", "%", "+", "-"}
EmailDomainChars == AsciiLetters \cup AsciiDigits \cup {".", "-"}
EMAIL_TLD_MIN == 2

\* r"^[a-zA-Z0-9._%+-]+@[a-zA-Z0-9.-]+\.[a-zA-Z]{2,}$"
EMAIL_PATTERN ==
    << AtBeginning,
       Repeat(1, In(EmailLocalChars)),
       Literal("@"),
       Repeat(1, In(EmailDomainChars)),
       Literal("."),
       Repeat(EMAIL_TLD_MIN, In(AsciiLetters)),
       AtEnd >>

validate_email(email) ==
    LET is_valid == PatternMatch(EMAIL_PATTERN, email, {}) # NoMatch IN
    [kind |-> "return",
     value |-> [valid |-> is_valid,
                input |-> email,
                message |-> IF is_valid THEN <<"Valid email format">>
                            ELSE <<"Invalid email format">>]]

(***************************************************************************)
(* validators/phone.py                                                     *)
(***************************************************************************)
PHONE_REST_MIN == 9
PHONE_REST_MAX == 14

\* r"^\+[1-9]\d{9,14}$" ; \d of a str pattern is any Unicode decimal digit.
PHONE_PATTERN ==
    << AtBeginning,
       Literal("+"),
       In(AsciiDigits \ {"0"}),
       RepeatUpTo(PHONE_REST_MIN, PHONE_REST_MAX, In(UnicodeDigits)),
       AtEnd >>

validate_phone(phone_number) ==
    LET is_valid == PatternMatch(PHONE_PATTERN, phone_number, {}) # NoMatch IN
    [kind |-> "return",
     value |-> [valid |-> is_valid,
                input |-> phone_number,
                message |-> IF is_valid THEN <<"Valid E.164 phone format">>
                            ELSE <<"Invalid phone format. Use E.164: +[country][number]">>]]

(***************************************************************************)
(* urllib.parse.urlparse, as validators/url.py calls it (Python 3.11).     *)
(* The answer is [ok |-> TRUE, scheme, netloc, path, params, query,        *)
(* fragment] or, when it raises, [ok |-> FALSE, exc, msg].                 *)
(***************************************************************************)
\* Of the C0 controls and the space that urlsplit strips from the left, and
\* of the tab, CR and LF that it removes everywhere, the alphabet has these.
WHATWG_C0_CONTROL_OR_SPACE == {" ", "TAB", "LF"}
UNSAFE_URL_BYTES_TO_REMOVE == {"TAB", "LF"}

scheme_chars == AsciiLetters \cup AsciiDigits \cup {"+", "-", "."}

S_http == <<"h","t","t","p">>
S_https == <<"h","t","t","p","s">>
S_ftp == <<"f","t","p">>

\* The schemes of uses_params that the alphabet can spell.
uses_params == {<<>>, S_ftp, S_http, S_https}

\* _splitnetloc(url, 2): the end of the authority is the first of "/?#".
SplitNetlocDelim(url) ==
    LET ends == {Find(url, c, 2) : c \in {"/", "?", "#"}} \ {0 - 1}
    IN IF ends = {} THEN Len(url)
       ELSE CHOOSE d \in ends : \A e \in ends : d <= e

\* url.split(c, 1): <<before, after>>, and <<url, "">> when c is not in url.
SplitOnce(url, c) ==
    LET i == Find(url, c, 0)
    IN IF i < 0 THEN <<url, <<>>>>
       ELSE <<Slice(url, 0, i), Slice(url, i + 1, Len(url))>>

\* _splitparams(url)
SplitParams(url) ==
    LET i == IF Contains(url, "/")
             THEN Find(url, ";", RFind(url, "/"))
             ELSE Find(url, ";", 0)
    IN IF i < 0 THEN <<url, <<>>>>
       ELSE <<Slice(url, 0, i), Slice(url, i + 1, Len(url))>>

\* urlsplit, from the split of the authority on: the bracket check, then
\* the fragment and the query.
UrlSplitTail(scheme, netloc, url3) ==
    IF Contains(netloc, "[") # Contains(netloc, "]")
    THEN [ok |-> FALSE, exc |-> "ValueError", msg |-> "Invalid IPv6 URL"]
    ELSE LET frag == SplitOnce(url3, "#") IN
         LET qry == SplitOnce(frag[1], "?") IN
         [ok |-> TRUE, scheme |-> scheme, netloc |-> netloc, path |-> qry[1],
          query |-> qry[2], fragment |-> frag[2]]

\* if url[:2] == '//': netloc, url = _splitnetloc(url, 2)
UrlSplitNetloc(scheme, url2, delim) ==
    IF Len(url2) >= 2 /\ url2[1] = "/" /\ url2[2] = "/"
    THEN UrlSplitTail(scheme, Slice(url2, 2, delim), Slice(url2, delim, Len(url2)))
    ELSE UrlSplitTail(scheme, <<>>, url2)

\* i = url.find(':') and the scheme before it, lower-cased, when url[:i] is
\* a letter followed by scheme characters.
UrlSplitScheme(url1, i) ==
    IF i > 0 /\ url1[1] \in AsciiLetters /\ \A k \in 1..i : url1[k] \in scheme_chars
    THEN UrlSplitNetloc(Lower(Slice(url1, 0, i)), Slice(url1, i + 1, Len(url1)),
                        SplitNetlocDelim(Slice(url1, i + 1, Len(url1))))
    ELSE UrlSplitNetloc(<<>>, url1, SplitNetlocDelim(url1))

UrlSplitClean(url1) == UrlSplitScheme(url1, Find(url1, ":", 0))

urlsplit(url) ==
    UrlSplitClean(Without(LStrip(url, WHATWG_C0_CONTROL_OR_SPACE), UNSAFE_URL_BYTES_TO_REMOVE))

\* urlparse, given what urlsplit answered.
UrlParseSplit(sp) ==
    IF ~sp.ok THEN sp
    ELSE LET pp == IF sp.scheme \in uses_params /\ Contains(sp.path, ";")
                   THEN SplitParams(sp.path) ELSE <<sp.path, <<>>>>
         IN [ok |-> TRUE, scheme |-> sp.scheme, netloc |-> sp.netloc, path |-> pp[1],
             params |-> pp[2], query |-> sp.query, fragment |-> sp.fragment]

urlparse(url) == UrlParseSplit(urlsplit(url))

(***************************************************************************)
(* validators/url.py                                                       *)
(***************************************************************************)
EmptyDict == [k \in {} |-> <<>>]

S_none == <<"n","o","n","e">>
S_slash == <<"/">>

\* parsed.scheme or "none"
SchemeOrNone(scheme) == IF Truthy(scheme) THEN scheme ELSE S_none

PathAsParsed(path) == path

\* parsed.path or "/"
PathOrSlash(path) == IF Truthy(path) THEN path ELSE S_slash

\* The if / elif / else of validate_url: which of its three results it builds.
UrlBranchSchemeFirst(is_valid, has_domain) ==
    IF is_valid /\ has_domain THEN "valid"
    ELSE IF ~is_valid THEN "invalid_scheme"
    ELSE "missing_domain"

UrlBranch(is_valid, has_domain) ==
    IF is_valid /\ has_domain THEN "valid"
    ELSE IF ~has_domain THEN "missing_domain"
    ELSE "invalid_scheme"

MSG_URL_VALID == <<"Valid HTTP/HTTPS URL">>
MSG_URL_MISSING_DOMAIN == <<"Invalid URL: missing domain">>
MSG_URL_INVALID_SCHEME == <<"Invalid URL scheme. Only HTTP/HTTPS allowed">>

\* validate_url, given what urlparse answered (or raised).
ValidateUrlParsed(url, parsed) ==
    IF ~parsed.ok
    THEN [kind |-> "return",
          value |-> [valid |-> FALSE, input |-> url,
                     message |-> <<"URL parsing error: ", parsed.msg>>,
                     details |-> EmptyDict]]
    ELSE
      LET branch == UrlBranch(parsed.scheme \in {S_http, S_https}, Truthy(parsed.netloc))
      IN CASE branch = "valid" ->
                [kind |-> "return",
                 value |-> [valid |-> TRUE, input |-> url, message |-> MSG_URL_VALID,
                            details |-> [scheme |-> parsed.scheme,
                                         netloc |-> parsed.netloc,
                                         path |-> PathOrSlash(parsed.path)]]]
           [] branch = "missing_domain" ->
                [kind |-> "return",
                 value |-> [valid |-> FALSE, input |-> url, message |-> MSG_URL_MISSING_DOMAIN,
                            details |-> [scheme |-> SchemeOrNone(parsed.scheme)]]]
           [] OTHER ->
                [kind |-> "return",
                 value |-> [valid |-> FALSE, input |-> url, message |-> MSG_URL_INVALID_SCHEME,
                            details |-> [scheme |-> SchemeOrNone(parsed.scheme)]]]

\* validate_url echoing the string urlsplit cleans instead of the caller's.
validate_url_echoing_cleaned(url) ==
    ValidateUrlParsed(Without(LStrip(url, WHATWG_C0_CONTROL_OR_SPACE), UNSAFE_URL_BYTES_TO_REMOVE),
                      urlparse(url))

validate_url(url) == ValidateUrlParsed(url, urlparse(url))

(***************************************************************************)
(* re.compile(pattern, flags), for patterns over the characters            *)
(*   a  .  *  $  ^  (  and the space.                                      *)
(* The answer is [ok |-> TRUE, items] or, when it raises re.error,         *)
(* [ok |-> FALSE, exc |-> "re.error", msg, pos].  The parser reads the     *)
(* pattern left to right; items are the items of the innermost open        *)
(* subpattern, opens the positions of the "(" not closed yet.  No pattern  *)
(* of these characters closes a "(", so what was parsed before one is not  *)
(* kept: the pattern ends in "missing ), unterminated subpattern" unless   *)
(* an earlier error is raised first.                                       *)
(***************************************************************************)
WHITESPACE == {" ", "TAB", "LF"}

ReError(msg, pos) == [ok |-> FALSE, exc |-> "re.error", msg |-> msg, pos |-> pos]

Last(items) == items[Len(items)]

RECURSIVE Parse(_, _, _, _, _)
Parse(pattern, k, items, opens, verbose) ==
    IF k > Len(pattern)
    THEN IF opens # <<>>
         THEN ReError("missing ), unterminated subpattern", Last(opens))
         ELSE [ok |-> TRUE, items |-> items]
    ELSE
      CASE verbose /\ pattern[k] \in WHITESPACE ->
              Parse(pattern, k + 1, items, opens, verbose)
        [] pattern[k] = "*" ->
              IF items = <<>> \/ Last(items).op \in {"AT_BEGINNING", "AT_END"}
              THEN ReError("nothing to repeat", k - 1)
              ELSE IF Last(items).op = "MAX_REPEAT"
              THEN ReError("multiple repeat", k - 1)
              ELSE Parse(pattern, k + 1,
                         [items EXCEPT ![Len(items)] = Repeat(0, Last(items))],
                         opens, verbose)
        [] pattern[k] = "." -> Parse(pattern, k + 1, Append(items, AnyChar), opens, verbose)
        [] pattern[k] = "^" -> Parse(pattern, k + 1, Append(items, AtBeginning), opens, verbose)
        [] pattern[k] = "$" -> Parse(pattern, k + 1, Append(items, AtEnd), opens, verbose)
        [] pattern[k] = "(" -> Parse(pattern, k + 1, <<>>, Append(opens, k - 1), verbose)
        [] OTHER -> Parse(pattern, k + 1, Append(items, Literal(pattern[k])), opens, verbose)

re_compile(pattern, fl) == Parse(pattern, 1, <<>>, <<>>, "VERBOSE" \in fl)

\* str(e) of a re.error: the message and the position.
DigitStr(n) == <<"0","1","2","3","4","5","6","7","8","9">>[n + 1]

ReErrorStr(err) == <<err.msg, " at position ", DigitStr(err.pos)>>

\* compiled_pattern.search(text): the first start, from the left, at which
\* the pattern matches, with the end the matcher prefers; None otherwise.
None == [found |-> FALSE]

RECURSIVE SearchFrom(_, _, _, _)
SearchFrom(items, text, start, fl) ==
    IF start > Len(text) THEN None
    ELSE IF MatchFrom(items, 1, text, start, fl) # NoMatch
    THEN [found |-> TRUE, start |-> start, end |-> MatchFrom(items, 1, text, start, fl)]
    ELSE SearchFrom(items, text, start + 1, fl)

Search(items, text, fl) == SearchFrom(items, text, 0, fl)

\* match.group(0)
Group0(text, m) == Slice(text, m.start, m.end)

(***************************************************************************)
(* validators/custom_regex.py                                              *)
(***************************************************************************)
\* The five flag letters, in the order the code tests them.
FlagTable ==
    << [letter |-> "i", flag |-> "IGNORECASE", desc |-> "case-insensitive"],
       [letter |-> "m", flag |-> "MULTILINE", desc |-> "multiline"],
       [letter |-> "s", flag |-> "DOTALL", desc |-> "dotall"],
       [letter |-> "x", flag |-> "VERBOSE", desc |-> "verbose"],
       [letter |-> "a", flag |-> "ASCII", desc |-> "ASCII-only"] >>

FlagsAsGiven(flags) == flags

\* flags.lower()
FlagsLower(flags) == Lower(flags)

\* "i" in flags.lower()
FlagRequested(letter, flags) == Contains(FlagsLower(flags), letter)

\* regex_flags, as the set of the flags or-ed into it.
regex_flags(flags) ==
    {FlagTable[k].flag : k \in {j \in 1..Len(FlagTable) : FlagRequested(FlagTable[j].letter, flags)}}

\* flag_descriptions
RECURSIVE DescriptionsFrom(_, _)
DescriptionsFrom(k, flags) ==
    IF k > Len(FlagTable) THEN <<>>
    ELSE (IF FlagRequested(FlagTable[k].letter, flags) THEN <<FlagTable[k].desc>> ELSE <<>>)
         \o DescriptionsFrom(k + 1, flags)

flag_descriptions(flags) == DescriptionsFrom(1, flags)

\* ", ".join(descs)
RECURSIVE Join(_)
Join(descs) ==
    IF Len(descs) <= 1 THEN descs
    ELSE <<Head(descs), ", ">> \o Join(Tail(descs))

\* f" ({', '.join(flag_descriptions)})" if flag_descriptions else ""
FlagNote(descs) == IF descs # <<>> THEN <<" (">> \o Join(descs) \o <<")">> ELSE <<>>

MSG_REGEX_MATCHED == <<"Pattern matched">>
MSG_REGEX_NO_MATCH == <<"Pattern did not match">>

InvalidPatternMessageAsNoMatch(err) == MSG_REGEX_NO_MATCH

\* f"Invalid regex pattern: {str(e)}"
InvalidPatternMessage(err) == <<"Invalid regex pattern: ">> \o ReErrorStr(err)

MatchTruthyWhenNonEmpty(m) == m.found /\ m.end > m.start

\* "if match:" -- a Match object is always true, None is false.
MatchTruthy(m) == m.found

\* The body of the try, once the pattern has compiled and been searched.
ValidateRegexSearched(text, pattern, descs, m) ==
    IF MatchTruthy(m)
    THEN [kind |-> "return",
          value |-> [valid |-> TRUE, input |-> text, pattern |-> pattern,
                     message |-> MSG_REGEX_MATCHED \o FlagNote(descs),
                     match |-> Group0(text, m)]]
    ELSE [kind |-> "return",
          value |-> [valid |-> FALSE, input |-> text, pattern |-> pattern,
                     message |-> MSG_REGEX_NO_MATCH]]

\* The try and its two handlers, given what re.compile answered.
ValidateRegexCompiled(text, pattern, descs, fl, compiled) ==
    IF compiled.ok
    THEN ValidateRegexSearched(text, pattern, descs, Search(compiled.items, text, fl))
    ELSE IF compiled.exc = "re.error"
    THEN [kind |-> "return",
          value |-> [valid |-> FALSE, input |-> text, pattern |-> pattern,
                     message |-> InvalidPatternMessage(compiled)]]
    ELSE [kind |-> "return",
          value |-> [valid |-> FALSE, input |-> text, pattern |-> pattern,
                     message |-> <<"Error: ", compiled.msg>>]]

\* The type names of the values a transport passes as flags.
TypeName(flags) == flags.t

\* flags.lower() is evaluated before the try: a flags value that is not a
\* str has no attribute 'lower', and the AttributeError leaves the check.
validate_regex(text, pattern, flags) ==
    IF TypeName(flags) # "str"
    THEN [kind |-> "raise", exc |-> "AttributeError",
          msg |-> <<"'", TypeName(flags), "' object has no attribute 'lower'">>]
    ELSE ValidateRegexCompiled(text, pattern, flag_descriptions(flags.v),
                               regex_flags(flags.v),
                               re_compile(pattern, regex_flags(flags.v)))

(***************************************************************************)
(* One call.  pc is "pending" (the call is made and its handler has not    *)
(* run) or "done" (the handler has returned or raised).  call is the       *)
(* request, outcome what the core check did, response what the REST route  *)
(* answered, returned what the client method did.  Every call is           *)
(* independent of every other: the checks keep no state.                   *)
(***************************************************************************)
Nothing == [kind |-> "none"]

StrFlags(s) == [t |-> "str", v |-> s]

\* The state in which call c has been made and nothing has run yet.
Pending(c) ==
    /\ pc = "pending"
    /\ call = c
    /\ outcome = Nothing
    /\ response = Nothing
    /\ returned = Nothing

ToolCall(check, input) ==
    [via |-> "tool", check |-> check, input |-> input, pattern |-> <<>>, flags |-> StrFlags(<<>>)]

(***************************************************************************)
(* The email check, called as a tool.                                      *)
(***************************************************************************)
EmailChars == {"a", "@", ".", "LF"}

InitEmail ==
    \E k \in 0..MaxEmailLen : \E s \in [1..k -> EmailChars] :
        Pending(ToolCall("email", s))

HandleEmail ==
    /\ pc = "pending"
    /\ call.via = "tool" /\ call.check = "email"
    /\ outcome' = validate_email(call.input)
    /\ pc' = "done"
    /\ UNCHANGED <<call, response, returned>>

SpecEmail == InitEmail /\ [][HandleEmail]_vars

(***************************************************************************)
(* The phone check, called as a tool.  An input is a head, a run of the    *)
(* digit 5 and a tail.                                                     *)
(***************************************************************************)
PhoneEdgeChars == {"+", "0", "1", "LF", "U+0663"}

InitPhone ==
    \E hk \in 0..MaxPhoneHead : \E h \in [1..hk -> PhoneEdgeChars] :
    \E n \in 0..MaxPhoneRun :
    \E tk \in 0..MaxPhoneTail : \E t \in [1..tk -> PhoneEdgeChars] :
        Pending(ToolCall("phone", h \o Rep("5", n) \o t))

HandlePhone ==
    /\ pc = "pending"
    /\ call.via = "tool" /\ call.check = "phone"
    /\ outcome' = validate_phone(call.input)
    /\ pc' = "done"
    /\ UNCHANGED <<call, response, returned>>

SpecPhone == InitPhone /\ [][HandlePhone]_vars

(***************************************************************************)
(* The URL check, called as a tool.  An input is a scheme word, a          *)
(* separator and a rest.                                                   *)
(***************************************************************************)
UrlHeads == {<<>>, S_http, S_https, <<"H","T","T","P">>, S_ftp}
UrlSeps == {<<>>, <<":">>, <<":","/","/">>, <<"/","/">>}
UrlChars == {"/", "a", ":", "[", "?", ";", " "}

InitUrl ==
    \E h \in UrlHeads : \E sep \in UrlSeps :
    \E k \in 0..MaxUrlRest : \E r \in [1..k -> UrlChars] :
        Pending(ToolCall("url", h \o sep \o r))

HandleUrl ==
    /\ pc = "pending"
    /\ call.via = "tool" /\ call.check = "url"
    /\ outcome' = validate_url(call.input)
    /\ pc' = "done"
    /\ UNCHANGED <<call, response, returned>>

SpecUrl == InitUrl /\ [][HandleUrl]_vars

(***************************************************************************)
(* The regex check, called as a tool.                                      *)
(***************************************************************************)
RegexCall(text, pattern, flags) ==
    [via |-> "tool", check |-> "regex", input |-> text, pattern |-> pattern, flags |-> flags]

TextChars == {"a", "A", "LF"}
PatChars == {"a", ".", "*", "$", " ", "("}

\* No flag, each flag alone, and all of them.
SomeFlags == {<<>>, <<"i">>, <<"m">>, <<"s">>, <<"x">>, <<"a">>, <<"i","m","s","x","a">>}

InitRegex ==
    \E tk \in 0..MaxTextLen : \E t \in [1..tk -> TextChars] :
    \E pk \in 0..MaxPatLen : \E p \in [1..pk -> PatChars] :
    \E f \in SomeFlags :
        Pending(RegexCall(t, p, StrFlags(f)))

HandleRegex ==
    /\ pc = "pending"
    /\ call.via = "tool" /\ call.check = "regex"
    /\ outcome' = validate_regex(call.input, call.pattern, call.flags)
    /\ pc' = "done"
    /\ UNCHANGED <<call, response, returned>>

SpecRegex == InitRegex /\ [][HandleRegex]_vars

(***************************************************************************)
(* The regex check called with every flag string up to MaxFlagLen over     *)
(* FlagChars, on texts and patterns on which each flag makes a difference  *)
(* (and ones on which none does).                                          *)
(***************************************************************************)
FlagChars == {"i", "I", "m", "M", "s", "S", "x", "X", "a", "A", "z"}

FlagProbeTexts == {<<"a">>, <<"A">>, <<"LF">>, <<"a", "LF", "A">>}
FlagProbePatterns == {<<"a">>, <<".">>, <<"a", "$">>, <<"a", " ">>, <<"a", "*">>, <<"*">>}

InitFlags ==
    \E t \in FlagProbeTexts : \E p \in FlagProbePatterns :
    \E fk \in 0..MaxFlagLen : \E f \in [1..fk -> FlagChars] :
        Pending(RegexCall(t, p, StrFlags(f)))

HandleFlags ==
    /\ pc = "pending"
    /\ call.via = "tool" /\ call.check = "regex"
    /\ outcome' = validate_regex(call.input, call.pattern, call.flags)
    /\ pc' = "done"
    /\ UNCHANGED <<call, response, returned>>

SpecFlags == InitFlags /\ [][HandleFlags]_vars

(***************************************************************************)
(* The four checks together, each called as a tool: any one call of any    *)
(* one check.                                                              *)
(***************************************************************************)
InitChecks == InitEmail \/ InitPhone \/ InitUrl \/ InitFlags

NextChecks ==
    \/ HandleEmail
    \/ HandlePhone
    \/ HandleUrl
    \/ HandleRegex

SpecChecks == InitChecks /\ [][NextChecks]_vars

(***************************************************************************)
(* http_server.py: handle_sse.  One opened /sse stream and the generator   *)
(* that feeds it.  pc is the generator's position: "open" (not started),   *)
(* "connected", "heartbeat" and "error" (suspended at that yield),         *)
(* "sleeping" (inside asyncio.sleep) and "closed".  call is the request    *)
(* and whether its client is still connected, response the events sent so  *)
(* far, each with the time the generator slept before it, and outcome the  *)
(* sleep being awaited.  Time passes in units; a sleep returns once its    *)
(* 30 units have passed, at most MaxLag units late.  At most MaxEvents     *)
(* events are followed.                                                    *)
(***************************************************************************)
HEARTBEAT_INTERVAL == 30

\* A sleep that may return one unit early.
SleepOverEarly(waited) == waited + 1 >= HEARTBEAT_INTERVAL

\* Whether asyncio.sleep(30) may return after waiting this long.
SleepOver(waited) == waited >= HEARTBEAT_INTERVAL

InitSse ==
    /\ pc = "open"
    /\ call = [via |-> "sse", check |-> "stream", connected |-> TRUE]
    /\ outcome = Nothing
    /\ response = [kind |-> "stream", events |-> <<>>]
    /\ returned = Nothing

\* The generator starts and yields the initial connection message.
SseConnected ==
    /\ pc = "open"
    /\ response' = [response EXCEPT
                      !.events = Append(@, [event |-> "connected", waited |-> 0])]
    /\ pc' = "connected"
    /\ UNCHANGED <<call, outcome, returned>>

\* Resumed after a yield of the try, the generator goes (back) to the top
\* of the loop and awaits asyncio.sleep(30).
SseSleep ==
    /\ pc \in {"connected", "heartbeat"}
    /\ outcome' = [kind |-> "sleep", waited |-> 0]
    /\ pc' = "sleeping"
    /\ UNCHANGED <<call, response, returned>>

\* One unit of time passes during the sleep.
SseTick ==
    /\ pc = "sleeping"
    /\ outcome.waited < HEARTBEAT_INTERVAL + MaxLag
    /\ outcome' = [outcome EXCEPT !.waited = @ + 1]
    /\ UNCHANGED <<pc, call, response, returned>>

\* The sleep returns and the generator yields a heartbeat.
SseHeartbeat ==
    /\ pc = "sleeping"
    /\ SleepOver(outcome.waited)
    /\ Len(response.events) < MaxEvents
    /\ response' = [response EXCEPT
                      !.events = Append(@, [event |-> "heartbeat", waited |-> outcome.waited])]
    /\ outcome' = Nothing
    /\ pc' = "heartbeat"
    /\ UNCHANGED <<call, returned>>

\* The awaited sleep raises an Exception: the except clause yields an error
\* event.
SseError ==
    /\ pc = "sleeping"
    /\ Len(response.events) < MaxEvents
    /\ response' = [response EXCEPT
                      !.events = Append(@, [event |-> "error", waited |-> outcome.waited])]
    /\ outcome' = Nothing
    /\ pc' = "error"
    /\ UNCHANGED <<call, returned>>

\* Resumed after the error event, the generator returns: the stream ends.
SseReturn ==
    /\ pc = "error"
    /\ pc' = "closed"
    /\ UNCHANGED <<call, outcome, response, returned>>

\* The client disconnects: the response cancels the generator wherever it
\* is.  CancelledError and GeneratorExit are not Exceptions, so the except
\* clause does not run.
SseDisconnect ==
    /\ pc # "closed"
    /\ call.connected
    /\ call' = [call EXCEPT !.connected = FALSE]
    /\ outcome' = Nothing
    /\ pc' = "closed"
    /\ UNCHANGED <<response, returned>>

NextSse ==
    \/ SseConnected
    \/ SseSleep
    \/ SseTick
    \/ SseHeartbeat
    \/ SseError
    \/ SseReturn
    \/ SseDisconnect

SpecSse == InitSse /\ [][NextSse]_vars

\* The event loop runs a generator that can run and time passes; nothing
\* obliges the client to disconnect or the sleep to raise.
SpecSseLive ==
    /\ SpecSse
    /\ WF_vars(SseConnected)
    /\ WF_vars(SseSleep)
    /\ WF_vars(SseTick)
    /\ WF_vars(SseHeartbeat)
    /\ WF_vars(SseReturn)

(***************************************************************************)
(* JSON values, as the REST routes receive and send them and as the        *)
(* client's response.json() reads them.  A str, a bool and a dict of them  *)
(* survive the encoding and the decoding unchanged, so an object holds the *)
(* mapping itself.                                                         *)
(***************************************************************************)
JsonString(s) == [json |-> "string", v |-> s]
JsonNumber(n) == [json |-> "number", v |-> n]
JsonNull == [json |-> "null"]
JsonObject(o) == [json |-> "object", v |-> o]
JsonArray(a) == [json |-> "array", v |-> a]
\* A body that is not JSON.
NotJson(text) == [json |-> "invalid", text |-> text]

\* The Python value a request model hands to the route for a field.
PyValue(j) ==
    CASE j.json = "string" -> [t |-> "str", v |-> j.v]
      [] j.json = "number" -> [t |-> "int", v |-> j.v]
      [] OTHER -> [t |-> "NoneType"]

HttpResponse(status, body) == [kind |-> "http", status |-> status, body |-> body]

\* raise HTTPException(status_code=..., detail=...)
HTTPException(status, detail) == HttpResponse(status, JsonObject([detail |-> detail]))

\* What FastAPI answers when a route lets an exception out.
InternalServerError == HttpResponse(500, NotJson("Internal Server Error"))

(***************************************************************************)
(* Request models.  A field is required or Optional with a default; a      *)
(* body is accepted when every required field is there with its type and  *)
(* every Optional one is absent, null or of its type (an int field also    *)
(* takes a string of digits).  Fields the model does not name are ignored. *)
(***************************************************************************)
Required(type) == [type |-> type, optional |-> FALSE, default |-> JsonNull]
Optional(type, default) == [type |-> type, optional |-> TRUE, default |-> default]

IsNumeral(s) == Len(s) > 0 /\ \A k \in 1..Len(s) : s[k] \in AsciiDigits

DigitValue(c) == CHOOSE n \in 0..9 : DigitStr(n) = c

RECURSIVE StrToInt(_)
StrToInt(s) ==
    IF Len(s) = 0 THEN 0
    ELSE 10 * StrToInt(SubSeq(s, 1, Len(s) - 1)) + DigitValue(s[Len(s)])

FieldAccepts(field, j) ==
    \/ j.json = field.type
    \/ field.optional /\ j.json = "null"
    \/ field.type = "number" /\ j.json = "string" /\ IsNumeral(j.v)

FieldErrors(model, body) ==
    {n \in DOMAIN model :
        IF n \in DOMAIN body THEN ~FieldAccepts(model[n], body[n])
        ELSE ~model[n].optional}

Coerce(field, j) ==
    IF field.type = "number" /\ j.json = "string" THEN JsonNumber(StrToInt(j.v)) ELSE j

Request(model, body) ==
    [n \in DOMAIN model |->
        IF n \in DOMAIN body THEN Coerce(model[n], body[n]) ELSE model[n].default]

\* FastAPI's answer to a body the request model rejects: the detail is the
\* list of the errors, here the names of the fields in error.
RequestValidationError(errors) ==
    [outcome |-> Nothing,
     response |-> HttpResponse(422, JsonObject([detail |-> JsonArray(errors)]))]

(***************************************************************************)
(* api.py: a valid result is the 200 body, an invalid one the detail of a  *)
(* 400.  The routes have no try: an exception of the check leaves them.    *)
(***************************************************************************)
ApiModels ==
    [email |-> [email |-> Required("string")],
     phone |-> [phone_number |-> Required("string")],
     url   |-> [url |-> Required("string")],
     regex |-> [text |-> Required("string"),
                pattern |-> Required("string"),
                flags |-> Optional("string", JsonString(<<>>))]]

\* The policy of rest_api.py applied to api.py: every result a 200 body.
ApiAnswerAlways200(result) ==
    [outcome |-> result,
     response |->
        IF result.kind = "raise" THEN InternalServerError
        ELSE HttpResponse(200, JsonObject(result.value))]

ApiAnswer(result) ==
    [outcome |-> result,
     response |->
        IF result.kind = "raise" THEN InternalServerError
        ELSE IF ~result.value.valid THEN HTTPException(400, JsonObject(result.value))
        ELSE HttpResponse(200, JsonObject(result.value))]

api_validate_email(request) == ApiAnswer(validate_email(request.email.v))

api_validate_phone(request) == ApiAnswer(validate_phone(request.phone_number.v))

api_validate_url(request) == ApiAnswer(validate_url(request.url.v))

api_validate_regex(request) ==
    ApiAnswer(validate_regex(request.text.v, request.pattern.v, PyValue(request.flags)))

ApiRoute(check, request) ==
    CASE check = "email" -> api_validate_email(request)
      [] check = "phone" -> api_validate_phone(request)
      [] check = "url"   -> api_validate_url(request)
      [] check = "regex" -> api_validate_regex(request)

ApiServe(check, body) ==
    IF FieldErrors(ApiModels[check], body) # {}
    THEN RequestValidationError(FieldErrors(ApiModels[check], body))
    ELSE ApiRoute(check, Request(ApiModels[check], body))

(***************************************************************************)
(* rest_api.py: every result is a 200 body built by ValidationResponse,    *)
(* which keeps valid, input, message and details; every exception inside   *)
(* the route's try is a 500 whose detail is str(e).                        *)
(***************************************************************************)
RestModels ==
    [email |-> [email |-> Required("string")],
     phone |-> [phone |-> Required("string")],
     url   |-> [url |-> Required("string")],
     regex |-> [text |-> Required("string"),
                pattern |-> Required("string"),
                description |-> Optional("string", JsonNull),
                flags |-> Optional("number", JsonNumber(0))]]

ValidationResponse(result) ==
    [valid |-> result.valid,
     input |-> result.input,
     message |-> result.message,
     details |-> IF "details" \in DOMAIN result THEN result.details ELSE JsonNull]

RestAnswer(result) ==
    [outcome |-> result,
     response |->
        IF result.kind = "raise" THEN HTTPException(500, JsonString(result.msg))
        ELSE HttpResponse(200, JsonObject(ValidationResponse(result.value)))]

\* The parameters validate_regex declares.
REGEX_PARAMETERS == {"text", "pattern", "flags"}

\* validate_regex called with keyword arguments: a keyword the function
\* does not declare is a TypeError, raised before the function runs.
CallValidateRegex(kwargs) ==
    IF DOMAIN kwargs \subseteq REGEX_PARAMETERS
    THEN validate_regex(kwargs.text, kwargs.pattern, kwargs.flags)
    ELSE [kind |-> "raise", exc |-> "TypeError",
          msg |-> <<"validate_regex() got an unexpected keyword argument '",
                    CHOOSE n \in DOMAIN kwargs \ REGEX_PARAMETERS : TRUE, "'">>]

validate_email_endpoint(request) == RestAnswer(validate_email(request.email.v))

validate_phone_endpoint(request) == RestAnswer(validate_phone(request.phone.v))

validate_url_endpoint(request) == RestAnswer(validate_url(request.url.v))

validate_regex_endpoint(request) ==
    RestAnswer(CallValidateRegex([text |-> request.text.v,
                                  pattern |-> request.pattern.v,
                                  description |-> PyValue(request.description),
                                  flags |-> PyValue(request.flags)]))

RestRoute(check, request) ==
    CASE check = "email" -> validate_email_endpoint(request)
      [] check = "phone" -> validate_phone_endpoint(request)
      [] check = "url"   -> validate_url_endpoint(request)
      [] check = "regex" -> validate_regex_endpoint(request)

RestServe(check, body) ==
    IF FieldErrors(RestModels[check], body) # {}
    THEN RequestValidationError(FieldErrors(RestModels[check], body))
    ELSE RestRoute(check, Request(RestModels[check], body))

(***************************************************************************)
(* clients/django_client.py: ValidationAPIClient.  A method posts the JSON *)
(* body to the server at base_url and returns response.json() on a 200     *)
(* and response.json()['detail'] otherwise; only requests.RequestException *)
(* (no connection, a body that is not JSON) is caught.                     *)
(***************************************************************************)
\* What requests.post meets at base_url: one of the two REST flavours, no
\* server at all, or a gateway in front of a server that is down, which
\* answers with an HTML page or with a JSON object of its own.
Servers == {"api", "rest", "down", "gateway_html", "gateway_json"}

ConnectionError == [kind |-> "error", exc |-> "ConnectionError", msg |-> "Connection refused"]

Post(server, check, body) ==
    CASE server = "api"  -> ApiServe(check, body)
      [] server = "rest" -> RestServe(check, body)
      [] server = "down" -> [outcome |-> Nothing, response |-> ConnectionError]
      [] server = "gateway_html" ->
            [outcome |-> Nothing,
             response |-> HttpResponse(502, NotJson("<html>Bad Gateway</html>"))]
      [] server = "gateway_json" ->
            [outcome |-> Nothing,
             response |-> HttpResponse(503, JsonObject([error |-> "Service Unavailable"]))]

\* The json= argument of each method.
ClientJson(check, input, pattern, flags) ==
    CASE check = "email" -> [email |-> JsonString(input)]
      [] check = "phone" -> [phone_number |-> JsonString(input)]
      [] check = "url"   -> [url |-> JsonString(input)]
      [] check = "regex" -> [text |-> JsonString(input),
                             pattern |-> JsonString(pattern),
                             flags |-> JsonString(flags)]

\* The mapping each method builds in its except clause.
ApiError(check, input, pattern, e) ==
    CASE check = "url" ->
            [valid |-> FALSE, input |-> input,
             message |-> <<"API Error: ", e>>, details |-> EmptyDict]
      [] check = "regex" ->
            [valid |-> FALSE, input |-> input, pattern |-> pattern,
             message |-> <<"API Error: ", e>>]
      [] OTHER ->
            [valid |-> FALSE, input |-> input, message |-> <<"API Error: ", e>>]

Return(value) == [kind |-> "return", value |-> value]

\* response.json(): requests' JSONDecodeError is a RequestException.
JSON_DECODE_ERROR == "Expecting value: line 1 column 1 (char 0)"

ClientResult(check, input, pattern, resp) ==
    IF resp.kind = "error"
    THEN Return(JsonObject(ApiError(check, input, pattern, resp.msg)))
    ELSE IF resp.body.json = "invalid"
    THEN Return(JsonObject(ApiError(check, input, pattern, JSON_DECODE_ERROR)))
    ELSE IF resp.status = 200
    THEN Return(resp.body)
    ELSE IF resp.body.json # "object"
    THEN [kind |-> "raise", exc |-> "TypeError", msg |-> "indices must be integers"]
    ELSE IF "detail" \notin DOMAIN resp.body.v
    THEN [kind |-> "raise", exc |-> "KeyError", msg |-> "'detail'"]
    ELSE Return(resp.body.v.detail)

(***************************************************************************)
(* The inputs of the transport specifications.                             *)
(***************************************************************************)
S_address == <<"a", "@", "a", ".", "a", "a">>
S_number == <<"+", "1">> \o Rep("5", PHONE_REST_MIN)

SampleEmails == {S_address, S_address \o <<"LF">>, <<"a", "@", "a">>, <<>>}
SamplePhones == {S_number, S_number \o <<"LF">>, <<"+", "0">> \o Rep("5", PHONE_REST_MIN), <<>>}
SampleUrls ==
    {S_https \o <<":", "/", "/", "a">>,
     S_http \o <<":", "/", "/", "a", "/", "a">>,
     S_ftp \o <<":", "/", "/", "a">>,
     S_ftp \o <<":", "/", "/">>,
     S_http \o <<":", "/", "/", "[">>,
     <<>>}
SamplePatterns == FlagProbePatterns \cup {<<"(">>}

Samples(check) ==
    CASE check = "email" -> SampleEmails
      [] check = "phone" -> SamplePhones
      [] check = "url"   -> SampleUrls

\* The key of the input in the body of the routes of a flavour.
InputKey(via, check) ==
    CASE check = "phone" -> IF via = "api" THEN "phone_number" ELSE "phone"
      [] check = "regex" -> "text"
      [] OTHER -> check

RouteCall(via, check, body) == [via |-> via, check |-> check, body |-> body]

\* The bodies a request model accepts, with each Optional field absent or
\* one of the values given for it.
RegexBodies(flagValues, descriptions) ==
    {[text |-> JsonString(t), pattern |-> JsonString(p)] :
        t \in FlagProbeTexts, p \in SamplePatterns}
    \cup {[text |-> JsonString(t), pattern |-> JsonString(p), flags |-> f] :
        t \in FlagProbeTexts, p \in SamplePatterns, f \in flagValues}
    \cup {[text |-> JsonString(t), pattern |-> JsonString(p), flags |-> f, description |-> d] :
        t \in FlagProbeTexts, p \in SamplePatterns, f \in flagValues, d \in descriptions}

InitRoutes(via, flagValues, descriptions) ==
    \/ \E check \in {"email", "phone", "url"} : \E s \in Samples(check) :
          Pending(RouteCall(via, check, [k \in {InputKey(via, check)} |-> JsonString(s)]))
    \/ \E body \in RegexBodies(flagValues, descriptions) :
          Pending(RouteCall(via, "regex", body))

(***************************************************************************)
(* The four routes of api.py, each answering one well-formed request.      *)
(***************************************************************************)
InitApi == InitRoutes("api", {JsonString(<<>>), JsonString(<<"i">>), JsonNull}, {})

PostApi(check) ==
    /\ pc = "pending"
    /\ call.via = "api" /\ call.check = check
    /\ \E served \in {ApiServe(check, call.body)} :
          /\ outcome' = served.outcome
          /\ response' = served.response
    /\ pc' = "done"
    /\ UNCHANGED <<call, returned>>

ApiValidateEmail == PostApi("email")
ApiValidatePhone == PostApi("phone")
ApiValidateUrl == PostApi("url")
ApiValidateRegex == PostApi("regex")

NextApi ==
    \/ ApiValidateEmail
    \/ ApiValidatePhone
    \/ ApiValidateUrl
    \/ ApiValidateRegex

SpecApi == InitApi /\ [][NextApi]_vars

(***************************************************************************)
(* The four routes of rest_api.py, each answering one well-formed request. *)
(***************************************************************************)
\* re.IGNORECASE is 2.
InitRest ==
    InitRoutes("rest", {JsonNumber(0), JsonNumber(2), JsonNull}, {JsonNull, JsonString(<<"a">>)})

PostRest(check) ==
    /\ pc = "pending"
    /\ call.via = "rest" /\ call.check = check
    /\ \E served \in {RestServe(check, call.body)} :
          /\ outcome' = served.outcome
          /\ response' = served.response
    /\ pc' = "done"
    /\ UNCHANGED <<call, returned>>

ValidateEmailEndpoint == PostRest("email")
ValidatePhoneEndpoint == PostRest("phone")
ValidateUrlEndpoint == PostRest("url")
ValidateRegexEndpoint == PostRest("regex")

NextRest ==
    \/ ValidateEmailEndpoint
    \/ ValidatePhoneEndpoint
    \/ ValidateUrlEndpoint
    \/ ValidateRegexEndpoint

SpecRest == InitRest /\ [][NextRest]_vars

(***************************************************************************)
(* The four methods of ValidationAPIClient, each called once against one   *)
(* of the servers.                                                         *)
(***************************************************************************)
ClientCall(server, check, input, pattern, flags) ==
    [via |-> "client", server |-> server, check |-> check,
     input |-> input, pattern |-> pattern, flags |-> flags]

ClientFlags == {<<>>, <<"i">>, <<"2">>}

InitClient ==
    \E server \in Servers :
        \/ \E check \in {"email", "phone", "url"} : \E s \in Samples(check) :
              Pending(ClientCall(server, check, s, <<>>, <<>>))
        \/ \E t \in FlagProbeTexts : \E p \in SamplePatterns : \E f \in ClientFlags :
              Pending(ClientCall(server, "regex", t, p, f))

ClientMethod(check) ==
    /\ pc = "pending"
    /\ call.via = "client" /\ call.check = check
    /\ \E served \in {Post(call.server, check,
                           ClientJson(check, call.input, call.pattern, call.flags))} :
          /\ outcome' = served.outcome
          /\ response' = served.response
          /\ returned' = ClientResult(check, call.input, call.pattern, served.response)
    /\ pc' = "done"
    /\ UNCHANGED call

ClientValidateEmail == ClientMethod("email")
ClientValidatePhone == ClientMethod("phone")
ClientValidateUrl == ClientMethod("url")
ClientValidateRegex == ClientMethod("regex")

NextClient ==
    \/ ClientValidateEmail
    \/ ClientValidatePhone
    \/ ClientValidateUrl
    \/ ClientValidateRegex

SpecClient == InitClient /\ [][NextClient]_vars

(***************************************************************************)
(* api.py and its client together: one request sent to a route directly or *)
(* one call of a client method.                                            *)
(***************************************************************************)
InitApiClient == InitApi \/ InitClient

NextApiClient ==
    \/ ApiValidateEmail
    \/ ApiValidatePhone
    \/ ApiValidateUrl
    \/ ApiValidateRegex
    \/ ClientValidateEmail
    \/ ClientValidatePhone
    \/ ClientValidateUrl
    \/ ClientValidateRegex

SpecApiClient == InitApiClient /\ [][NextApiClient]_vars

(***************************************************************************)
(* clients/django_client.py: the module-level _client, get_validator_client*)
(* and the four convenience functions, called one after the other in one   *)
(* process.  outcome is the process: the _client global and the number of  *)
(* ValidationAPIClient instances constructed so far.  call is the last     *)
(* call, its number, and the base_url of the first call of the process;    *)
(* response is the URL the call posted to and the answer it got; returned  *)
(* is what the call returned.  At most MaxCalls calls are followed.        *)
(***************************************************************************)
DEFAULT_BASE_URL == S_http \o <<":", "/", "/", "localhost", ":", "8000">>

\* s.rstrip(chars)
RStrip(s, chars) ==
    IF \A k \in 1..Len(s) : s[k] \in chars THEN <<>>
    ELSE SubSeq(s, 1, CHOOSE k \in 1..Len(s) :
                          s[k] \notin chars /\ \A j \in (k + 1)..Len(s) : s[j] \in chars)

\* ValidationAPIClient(base_url); id tells the instances apart.
NewValidationAPIClient(id, base_url) == [id |-> id, base_url |-> RStrip(base_url, {"/"})]

\* get_validator_client that constructs a client on every call.
get_validator_client_fresh(process, base_url) ==
    [process EXCEPT
        !.client = [t |-> "ValidationAPIClient",
                    v |-> NewValidationAPIClient(process.constructed + 1, base_url)],
        !.constructed = @ + 1]

\* The process after get_validator_client(base_url); its client is the
\* instance the function returns.
get_validator_client(process, base_url) ==
    IF process.client.t = "NoneType"
    THEN [process EXCEPT
            !.client = [t |-> "ValidationAPIClient",
                        v |-> NewValidationAPIClient(process.constructed + 1, base_url)],
            !.constructed = @ + 1]
    ELSE process

\* The servers of the environment: api.py at http://a, rest_api.py at
\* http://b, none anywhere else.
S_base_a == S_http \o <<":", "/", "/", "a">>
S_base_b == S_http \o <<":", "/", "/", "b">>

BaseUrls == {S_base_a, S_base_a \o <<"/">>, S_base_b \o <<"/", "/">>, DEFAULT_BASE_URL}

ServerAt(base_url) ==
    CASE base_url = S_base_a -> "api"
      [] base_url = S_base_b -> "rest"
      [] OTHER -> "down"

InitModule ==
    /\ pc = "ready"
    /\ call = [via |-> "module", check |-> "none", n |-> 0, first |-> <<>>,
               base_url |-> <<>>, input |-> <<>>, pattern |-> <<>>]
    /\ outcome = [kind |-> "process", client |-> [t |-> "NoneType"], constructed |-> 0]
    /\ response = Nothing
    /\ returned = Nothing

ModuleCall(check, base_url, input, pattern) ==
    [via |-> "module", check |-> check, n |-> call.n + 1,
     first |-> IF call.n = 0 THEN base_url ELSE call.first,
     base_url |-> base_url, input |-> input, pattern |-> pattern]

\* get_validator_client(base_url), called by the application.
GetValidatorClient ==
    /\ call.via = "module" /\ call.n < MaxCalls
    /\ \E base_url \in BaseUrls :
          /\ outcome' = get_validator_client(outcome, base_url)
          /\ returned' = Return(outcome'.client)
          /\ call' = ModuleCall("get_validator_client", base_url, <<>>, <<>>)
    /\ UNCHANGED <<pc, response>>

\* A convenience function: get_validator_client().validate_x(...).
Convenience(check, input, pattern) ==
    /\ call.via = "module" /\ call.n < MaxCalls
    /\ outcome' = get_validator_client(outcome, DEFAULT_BASE_URL)
    /\ \E served \in {Post(ServerAt(outcome'.client.v.base_url), check,
                           ClientJson(check, input, pattern, <<>>))} :
          /\ response' = [kind |-> "exchange",
                          url |-> outcome'.client.v.base_url \o <<"/validate/", check>>,
                          answer |-> served.response]
          /\ returned' = ClientResult(check, input, pattern, served.response)
    /\ call' = ModuleCall(check, DEFAULT_BASE_URL, input, pattern)
    /\ UNCHANGED pc

ModuleValidateEmail == \E s \in SampleEmails : Convenience("email", s, <<>>)
ModuleValidatePhone == \E s \in SamplePhones : Convenience("phone", s, <<>>)
ModuleValidateUrl == \E s \in SampleUrls : Convenience("url", s, <<>>)
ModuleValidateRegex ==
    \E t \in FlagProbeTexts : \E p \in SamplePatterns : Convenience("regex", t, p)

NextModule ==
    \/ GetValidatorClient
    \/ ModuleValidateEmail
    \/ ModuleValidatePhone
    \/ ModuleValidateUrl
    \/ ModuleValidateRegex

SpecModule == InitModule /\ [][NextModule]_vars

(***************************************************************************)
(* C1.  validate_email(s).valid is true if and only if the entire string s *)
(* is local@domain.tld: local one or more of [A-Za-z0-9._%+-], domain one  *)
(* or more of [A-Za-z0-9.-], tld two or more ASCII letters.                *)
(***************************************************************************)
AllIn(s, lo, hi, S) == \A k \in lo..hi : s[k] \in S

ConformsEmail(s) ==
    \E at \in 2..Len(s) : \E dot \in (at + 2)..(Len(s) - 2) :
        /\ s[at] = "@"
        /\ s[dot] = "."
        /\ AllIn(s, 1, at - 1, EmailLocalChars)
        /\ AllIn(s, at + 1, dot - 1, EmailDomainChars)
        /\ AllIn(s, dot + 1, Len(s), AsciiLetters)

EmailDone == pc = "done" /\ call.check = "email" /\ call.via = "tool"

C1_EmailValidIffWholeStringConforms ==
    EmailDone => (outcome.value.valid <=> ConformsEmail(call.input))

(***************************************************************************)
(* C2.  validate_phone(s).valid is true if and only if the entire string s *)
(* is "+", one digit 1-9 and 9 to 14 further digits 0-9.                   *)
(***************************************************************************)
ConformsPhone(s) ==
    /\ Len(s) >= 11 /\ Len(s) <= 16
    /\ s[1] = "+"
    /\ s[2] \in AsciiDigits \ {"0"}
    /\ AllIn(s, 3, Len(s), AsciiDigits)

PhoneDone == pc = "done" /\ call.check = "phone" /\ call.via = "tool"

C2_PhoneValidIffWholeStringConforms ==
    PhoneDone => (outcome.value.valid <=> ConformsPhone(call.input))

(***************************************************************************)
(* C6.  validate_url tie-break: when the parsed authority is empty and the *)
(* parsed scheme is not http or https, the result is valid=false with the  *)
(* "missing domain" message and details.scheme the parsed scheme, or       *)
(* "none" when no scheme was parsed; the "invalid scheme" message is       *)
(* returned only when an authority is present and the scheme is not        *)
(* http/https.                                                             *)
(***************************************************************************)
UrlDone == pc = "done" /\ call.check = "url" /\ call.via = "tool"

HttpSchemes == {S_http, S_https}

C6_Holds(parsed, r) ==
    /\ (parsed.ok /\ parsed.netloc = <<>> /\ parsed.scheme \notin HttpSchemes) =>
          /\ r.valid = FALSE
          /\ r.message = MSG_URL_MISSING_DOMAIN
          /\ DOMAIN r.details = {"scheme"}
          /\ r.details.scheme = (IF parsed.scheme = <<>> THEN S_none ELSE parsed.scheme)
    /\ (r.message = MSG_URL_INVALID_SCHEME) =>
          (parsed.ok /\ parsed.netloc # <<>> /\ parsed.scheme \notin HttpSchemes)

C6_UrlMissingDomainBeforeInvalidScheme ==
    UrlDone => C6_Holds(urlparse(call.input), outcome.value)

\* "ftp://" : a bad scheme and no authority, reported as a missing domain.
C6_Witness ==
    /\ UrlDone
    /\ call.input = S_ftp \o <<":", "/", "/">>
    /\ urlparse(call.input).netloc = <<>>
    /\ outcome.value.message = MSG_URL_MISSING_DOMAIN
    /\ outcome.value.details.scheme = S_ftp

(***************************************************************************)
(* C7.  validate_url returns valid=true exactly when the parsed scheme is  *)
(* http or https and the parsed authority is non-empty, and then details   *)
(* holds exactly scheme, netloc and path, where path is the parsed path,   *)
(* or "/" when the parsed path is empty.                                   *)
(***************************************************************************)
C7_Holds(parsed, r) ==
    /\ r.valid <=> (parsed.ok /\ parsed.scheme \in HttpSchemes /\ parsed.netloc # <<>>)
    /\ r.valid =>
          /\ DOMAIN r.details = {"scheme", "netloc", "path"}
          /\ r.details.scheme = parsed.scheme
          /\ r.details.netloc = parsed.netloc
          /\ r.details.path = (IF parsed.path = <<>> THEN <<"/">> ELSE parsed.path)

C7_UrlValidIffHttpSchemeAndAuthority ==
    UrlDone => C7_Holds(urlparse(call.input), outcome.value)

\* "https://a" : valid, the parsed path is empty and details.path is "/".
C7_Witness ==
    /\ UrlDone
    /\ call.input = S_https \o <<":", "/", "/", "a">>
    /\ outcome.value.valid
    /\ urlparse(call.input).path = <<>>
    /\ outcome.value.details.path = <<"/">>

(***************************************************************************)
(* What a pattern of the modelled characters means, stated apart from the  *)
(* engine's search order: whether it is malformed, and the set of          *)
(* positions at which an occurrence that starts at pos can end.            *)
(***************************************************************************)
RegexDone == pc = "done" /\ call.check = "regex" /\ call.via = "tool"

\* The pattern as the parser sees it: in verbose mode without its whitespace.
Significant(pattern, fl) ==
    IF "VERBOSE" \in fl THEN SelectSeq(pattern, LAMBDA c : c \notin {" ", "TAB", "LF"})
    ELSE pattern

\* An unclosed "(", or a "*" with nothing before it that can be repeated.
MalformedSig(p) ==
    \E k \in 1..Len(p) :
        \/ p[k] = "("
        \/ p[k] = "*" /\ (k = 1 \/ p[k - 1] \in {"*", "$", "^", "("})

Malformed(pattern, fl) == MalformedSig(Significant(pattern, fl))

RECURSIVE EndsFrom(_, _, _, _, _)
EndsFrom(items, k, text, pos, fl) ==
    IF k > Len(items) THEN {pos}
    ELSE
      CASE items[k].op = "AT_BEGINNING" ->
              IF AtBeginningHolds(text, pos, fl)
              THEN EndsFrom(items, k + 1, text, pos, fl) ELSE {}
        [] items[k].op = "AT_END" ->
              IF AtEndHolds(text, pos, fl)
              THEN EndsFrom(items, k + 1, text, pos, fl) ELSE {}
        [] items[k].op = "MAX_REPEAT" ->
              UNION {EndsFrom(items, k + 1, text, pos + j, fl) :
                        j \in items[k].min..Run(items[k].item, text, pos, fl, Len(text))}
        [] OTHER ->
              IF pos < Len(text) /\ CharMatches(items[k], text[pos + 1], fl)
              THEN EndsFrom(items, k + 1, text, pos + 1, fl) ELSE {}

OccurrencesCompiled(compiled, text, pos, fl) ==
    IF compiled.ok THEN EndsFrom(compiled.items, 1, text, pos, fl) ELSE {}

\* The ends of the occurrences of the call's pattern that start at pos.
Occurrences(pos) ==
    OccurrencesCompiled(re_compile(call.pattern, regex_flags(call.flags.v)),
                        call.input, pos, regex_flags(call.flags.v))

SyntaxErrors == {"nothing to repeat", "multiple repeat", "missing ), unterminated subpattern"}

(***************************************************************************)
(* C8.  validate_regex with a pattern that fails to compile returns        *)
(* valid=false, the pattern echoed, no match field and a message carrying  *)
(* the syntax-error detail, distinct from the "Pattern did not match" of a *)
(* compilable pattern with no occurrence: the two are never confused.      *)
(***************************************************************************)
C8_Holds(r, malformed, pattern) ==
    /\ malformed =>
          /\ r.valid = FALSE
          /\ r.pattern = pattern
          /\ "match" \notin DOMAIN r
          /\ Len(r.message) > 1
          /\ r.message[1] = "Invalid regex pattern: "
          /\ r.message[2] \in SyntaxErrors
          /\ r.message # MSG_REGEX_NO_MATCH
    /\ (~malformed /\ ~r.valid) => r.message = MSG_REGEX_NO_MATCH
    /\ (r.message = MSG_REGEX_NO_MATCH) =>
          (~malformed /\ \A pos \in 0..Len(r.input) : Occurrences(pos) = {})

C8_MalformedPatternIsNotNoMatch ==
    RegexDone =>
        /\ outcome.kind = "return"
        /\ C8_Holds(outcome.value, Malformed(call.pattern, regex_flags(call.flags.v)),
                    call.pattern)

\* "(a" : the pattern does not compile.
C8_Witness ==
    /\ RegexDone
    /\ call.pattern = <<"(", "a">>
    /\ call.input = <<"a">>
    /\ outcome.value.valid = FALSE
    /\ outcome.value.message[2] = "missing ), unterminated subpattern"

(***************************************************************************)
(* C9.  In every result of validate_regex the match field is present if    *)
(* and only if valid is true, and it is then the substring of an           *)
(* occurrence at the first (leftmost) position where the pattern occurs in *)
(* text; an occurrence that is the empty string counts: it yields          *)
(* valid=true with match = "".                                             *)
(***************************************************************************)
C9_Holds(r, text) ==
    /\ ("match" \in DOMAIN r) <=> r.valid
    /\ r.valid =>
          \E s \in 0..Len(text) :
              /\ \A s2 \in 0..(s - 1) : Occurrences(s2) = {}
              /\ \E en \in Occurrences(s) : r.match = Slice(text, s, en)
    /\ (\E s \in 0..Len(text) : Occurrences(s) # {}) => r.valid

C9_MatchIffValidAndLeftmost ==
    RegexDone => (outcome.kind = "return" /\ C9_Holds(outcome.value, call.input))

\* "a*" on "A": the first occurrence is the empty string at position 0.
C9_Witness ==
    /\ RegexDone
    /\ call.pattern = <<"a", "*">>
    /\ call.input = <<"A">>
    /\ call.flags.v = <<>>
    /\ outcome.value.valid
    /\ outcome.value.match = <<>>

(***************************************************************************)
(* C10.  Flag parsing depends only on the set of the letters i, m, s, x, a *)
(* that occur in the flag string in either case: the result is the one of  *)
(* the call whose flag string is those letters, lower-case, once each, in  *)
(* the order i, m, s, x, a; and on a match the message lists the names of  *)
(* the active flags in that order, comma-separated, and has no annotation  *)
(* when there are none.                                                    *)
(***************************************************************************)
FlagLetters == <<"i", "m", "s", "x", "a">>

UpperOf(l) == UpperSeq[CHOOSE k \in 1..26 : LowerSeq[k] = l]

LetterSet(f) == {l \in {"i", "m", "s", "x", "a"} : \E k \in 1..Len(f) : f[k] = l \/ f[k] = UpperOf(l)}

Canonical(set) == SelectSeq(FlagLetters, LAMBDA l : l \in set)

FlagName(l) ==
    CASE l = "i" -> "case-insensitive"
      [] l = "m" -> "multiline"
      [] l = "s" -> "dotall"
      [] l = "x" -> "verbose"
      [] l = "a" -> "ASCII-only"

\* " (name, name, ...)" for the letters of ls, nothing for none.
Annotation(ls) ==
    IF ls = <<>> THEN <<>>
    ELSE <<" (">>
         \o [k \in 1..(2 * Len(ls) - 1) |->
                IF k % 2 = 1 THEN FlagName(ls[(k + 1) \div 2]) ELSE ", "]
         \o <<")">>

C10_Holds(out, canon) ==
    /\ out = validate_regex(call.input, call.pattern, StrFlags(canon))
    /\ out.kind = "return"
    /\ out.value.valid => out.value.message = <<"Pattern matched">> \o Annotation(canon)

ResultKeys == {"valid", "input", "message"}

IsValidationResult(r) == ResultKeys \subseteq DOMAIN r /\ r.valid \in BOOLEAN

C3_ChecksNeverRaise ==
    (pc = "done" /\ outcome.kind # "none") =>
        /\ outcome.kind = "return"
        /\ IsValidationResult(outcome.value)

(***************************************************************************)
(* C4.  Every route of both REST flavours answers a well-formed request    *)
(* with the result the core check computes for the request's input, as the *)
(* body or as the error detail, every field of the result included (the    *)
(* regex result's pattern and match too), and never with a server error.   *)
(***************************************************************************)
\* The result the core check computes for the request a body makes.
CoreResult(via, check, request) ==
    CASE check = "email" -> validate_email(request[InputKey(via, check)].v)
      [] check = "phone" -> validate_phone(request[InputKey(via, check)].v)
      [] check = "url"   -> validate_url(request[InputKey(via, check)].v)
      [] check = "regex" ->
            validate_regex(request.text.v, request.pattern.v, PyValue(request.flags))

Models(via) == IF via = "api" THEN ApiModels ELSE RestModels

\* What a response carries: its body, or the detail of an error.
Carried(resp) ==
    IF resp.status = 200 THEN resp.body
    ELSE IF resp.body.json = "object" /\ "detail" \in DOMAIN resp.body.v
    THEN resp.body.v.detail
    ELSE JsonNull

Carries(payload, core) ==
    /\ core.kind = "return"
    /\ payload.json = "object"
    /\ \A f \in DOMAIN core.value :
          f \in DOMAIN payload.v /\ payload.v[f] = core.value[f]

C4_RoutesCarryTheCoreResult ==
    (pc = "done" /\ call.via \in {"api", "rest"}) =>
        /\ response.status < 500
        /\ Carries(Carried(response),
                   CoreResult(call.via, call.check,
                              Request(Models(call.via)[call.check], call.body)))

(***************************************************************************)
(* C5.  On every transport-level failure (no connection, or a response     *)
(* outside 2xx whose body is not a JSON object with a ValidationResult     *)
(* under 'detail') a client method returns a mapping with valid false, the *)
(* input echoed and a message; it never raises and never returns another   *)
(* kind of value.                                                          *)
(***************************************************************************)
CarriesResult(body) ==
    /\ body.json = "object"
    /\ "detail" \in DOMAIN body.v
    /\ body.v.detail.json = "object"
    /\ ResultKeys \subseteq DOMAIN body.v.detail.v

TransportFailure(resp) ==
    \/ resp.kind = "error"
    \/ resp.kind = "http" /\ resp.status \notin 200..299 /\ ~CarriesResult(resp.body)

IsFailureResult(value, input) ==
    /\ value.json = "object"
    /\ ResultKeys \subseteq DOMAIN value.v
    /\ value.v.valid = FALSE
    /\ value.v.input = input

C5_ClientNormalizesTransportFailures ==
    (pc = "done" /\ call.via = "client" /\ TransportFailure(response)) =>
        /\ returned.kind = "return"
        /\ IsFailureResult(returned.value, call.input)

(***************************************************************************)
(* C11.  On every return path of the four checks the result's input is the *)
(* caller's string, character for character, and the regex result's        *)
(* pattern is the caller's pattern.                                        *)
(***************************************************************************)
C11_InputAndPatternEchoed ==
    (pc = "done" /\ call.via = "tool" /\ outcome.kind = "return") =>
        /\ outcome.value.input = call.input
        /\ call.check = "regex" => outcome.value.pattern = call.pattern

\* A URL that urlparse strips of its leading space before parsing it: the
\* result is echoed with the space.
C11_Witness ==
    /\ pc = "done" /\ call.via = "tool" /\ call.check = "url"
    /\ call.input = <<" ", "a">>
    /\ outcome.kind = "return"
    /\ ~outcome.value.valid
    /\ outcome.value.input = call.input

(***************************************************************************)
(* C12.  On an opened /sse stream the first event is 'connected' and it is *)
(* the only one; every later event is a 'heartbeat', sent after a sleep of *)
(* 30 units, or an 'error', which is the last event of the stream; nothing *)
(* is sent on a closed stream; and while the client stays connected the    *)
(* next event always comes, until the stream is closed.                    *)
(***************************************************************************)
C12_Order ==
    \A k \in 1..Len(response.events) :
        /\ (k = 1) <=> (response.events[k].event = "connected")
        /\ response.events[k].event \in {"connected", "heartbeat", "error"}
        /\ response.events[k].event = "heartbeat" =>
              response.events[k].waited >= HEARTBEAT_INTERVAL
        /\ response.events[k].event = "error" =>
              k = Len(response.events) /\ pc \in {"error", "closed"}

C12_NextEventComes(n) ==
    (Len(response.events) = n /\ call.connected)
        ~> (Len(response.events) > n \/ ~call.connected \/ pc = "closed")

C12_SseEventSequence ==
    /\ [](call.via = "sse" => C12_Order)
    /\ [][pc = "closed" => UNCHANGED response]_vars
    /\ \A n \in 0..(MaxEvents - 1) : C12_NextEventComes(n)

\* A stream that sent 'connected' and two heartbeats before its client
\* disconnected.
C12_Witness ==
    /\ call.via = "sse"
    /\ pc = "closed"
    /\ ~call.connected
    /\ Len(response.events) = 3
    /\ response.events[1].event = "connected"
    /\ response.events[2].event = "heartbeat"
    /\ response.events[3].event = "heartbeat"

(***************************************************************************)
(* C13.  An api.py route answers 200 with the core result as body exactly  *)
(* when the result is valid, and otherwise 400 with the unmodified result  *)
(* as detail; so the client method talking to api.py returns exactly the   *)
(* mapping the core check returns for the input, valid or not.             *)
(***************************************************************************)
\* What the core check returns when called directly with a method's arguments.
DirectResult(check, input, pattern, flags) ==
    CASE check = "email" -> validate_email(input)
      [] check = "phone" -> validate_phone(input)
      [] check = "url"   -> validate_url(input)
      [] check = "regex" -> validate_regex(input, pattern, StrFlags(flags))

\* The answer of a route to a request for which the core check returned core.
C13_Policy(core, resp) ==
    /\ (resp.status = 200) <=> core.value.valid
    /\ core.value.valid => resp.body = JsonObject(core.value)
    /\ ~core.value.valid =>
          /\ resp.status = 400
          /\ resp.body = JsonObject([detail |-> JsonObject(core.value)])

C13_Transparent(core, resp, ret) ==
    /\ core.kind = "return"
    /\ C13_Policy(core, resp)
    /\ ret = Return(JsonObject(core.value))

IsSlashStripped(stripped, s) ==
    /\ Len(stripped) > 0 => stripped[Len(stripped)] # "/"
    /\ \E k \in 0..Len(s) : s = stripped \o Rep("/", k)

C14_OneClient ==
    (call.via = "module" /\ call.n >= 1) =>
        /\ outcome.constructed = 1
        /\ outcome.client.t = "ValidationAPIClient"
        /\ outcome.client.v.id = 1
        /\ IsSlashStripped(outcome.client.v.base_url, call.first)
        /\ call.check = "get_validator_client" => returned = Return(outcome.client)
        /\ call.check # "get_validator_client" =>
              response.url = outcome.client.v.base_url \o <<"/validate/", call.check>>

C14_SingletonClient ==
    /\ []C14_OneClient
    /\ [][(call.via = "module" /\ call.n >= 1) => outcome'.client = outcome.client]_vars

\* The first call gives http://b// and a later one http://a: the client
\* still is the one for http://b.
C14_Witness ==
    /\ call.via = "module"
    /\ call.n = 2
    /\ call.first = S_base_b \o <<"/", "/">>
    /\ call.check = "get_validator_client"
    /\ call.base_url = S_base_a
    /\ returned.value.v.base_url = S_base_b

=============================================================================
